---- MODULE Spec2Model ----
(***************************************************************************)
(* Model of the Pdf component of react-native-pdf (src/index.js): source   *)
(* resolution, disk cache lookup, download with temp file and commit copy, *)
(* task cancellation on source change and on unmount.                      *)
(*                                                                         *)
(* One Pdf instance is modelled.  Every call of loadSource is an "attempt" *)
(* (attempts[i]); an attempt that reaches downloadFile owns a fetch task.  *)
(* The file system, the transport and the clock are the environment: their *)
(* outcomes (stat / cp / writeFile / unlink succeed or reject, the fetch   *)
(* resolves or rejects, bytes written, Content-Length header) are chosen   *)
(* nondeterministically.                                                   *)
(***************************************************************************)
EXTENDS Integers, Sequences, FiniteSets, TLC

\* ------------------------------------------------------------------ bounds
\* number of loadSource calls of the instance (mount + source changes)
MaxAttempts == 2
\* number of clock advances (Date.now() readings differ between ticks)
MaxTicks == 2
\* number of progress events the transport reports per fetch before the
\* last chunk; a progress event carries received / total = recv / (MaxRecv + 1)
MaxRecv == 1
\* number of loadSource calls with an http(s) uri in the general
\* specification (SpecNet has network sources only, up to MaxAttempts)
MaxNetAttempts == 1

\* ------------------------------------------------------- values and inputs
\* A uri is a sequence of tokens; its first token is the scheme prefix the
\* regular expressions of prepareFile test for.  <<>> is the empty uri ''.
UriHttp == <<"https://", "host/doc.pdf">>
UriAsset == <<"bundle-assets://", "doc.pdf">>
UriData == <<"data:application/pdf;base64,", "JVBERi0x">>
UriFile == <<"file://", "/storage/doc.pdf">>
UriNone == <<>>
\* a plain http uri, a bare path with an escaped blank, and a bare path with
\* a malformed escape (decodeURIComponent throws URIError on it)
UriHttpPlain == <<"http://", "host/doc.pdf">>
UriPath == <<"/storage/", "%20", "doc.pdf">>
UriBad == <<"/storage/", "%", "doc.pdf">>

\* An optional number is <<>> (undefined) or <<n>>.
ExpirationValues == {<<>>, <<1>>, <<-1>>}

\* The source props the consumer passes: {uri, cache, cacheFileName, expiration}
Sources ==
    {[uri |-> UriHttp, cache |-> TRUE, cacheFileName |-> <<>>, expiration |-> e] :
        e \in ExpirationValues}
    \cup {[uri |-> u, cache |-> FALSE, cacheFileName |-> <<>>, expiration |-> <<>>] :
        u \in {UriHttp, UriAsset, UriData, UriFile, UriNone, UriHttpPlain, UriPath, UriBad}}
    \cup {[uri |-> UriNone, cache |-> TRUE, cacheFileName |-> <<>>, expiration |-> <<>>]}

NetSources == {s \in Sources : s.uri = UriHttp /\ s.expiration = <<>>}

\* what a resolved fetch brings: the bytes written at the temp path and the
\* Content-Length header (<<>>: header absent)
Responses ==
    {[size |-> 2, declared |-> <<>>], [size |-> 2, declared |-> <<2>>],
     [size |-> 1, declared |-> <<2>>]}

\* line 107: cacheFileName || `${SHA1(uri)}.pdf`
SHA1(uri) == <<"sha1">> \o uri

Filename(src) ==
    IF src.cacheFileName # <<>> THEN src.cacheFileName ELSE SHA1(src.uri) \o <<".pdf">>

\* line 108: `${CacheDir}/${filename}`
CacheFile(src) == <<"CacheDir/">> \o Filename(src)

\* line 147: `${cacheFile}.tmp`
TempCacheFile(cacheFile) == cacheFile \o <<".tmp">>

CachePaths == {CacheFile(s) : s \in {x \in Sources : x.uri # UriNone}}
Paths == CachePaths \cup {TempCacheFile(p) : p \in CachePaths}

\* Date.now() and stats.lastModified are milliseconds
TimeOf(i) == IF i = 0 THEN 0 ELSE 999 + i

Absent == [st |-> "absent", by |-> 0, size |-> 0, mtime |-> 0]
FileOf(st, by, size, mtime) == [st |-> st, by |-> by, size |-> size, mtime |-> mtime]

\* ---------------------------------------------------------- pure functions
Truthy(optnum) == optnum # <<>> /\ optnum[1] # 0

\* line 113: expiration && (Date.now() > stats.lastModified + expiration * 1000)
IsExpired(expiration, nowMs, lastModified) ==
    Truthy(expiration) /\ nowMs > lastModified + expiration[1] * 1000

\* line 110: if (cache)
StatsCacheAlways(src) == TRUE
UsesCache(src) == src.cache

HasPrefix(uri, p) == Len(uri) > 0 /\ uri[1] = p

\* lines 131-139: the strategy prepareFile selects
StrategyHttpsOnly(uri) ==
    IF HasPrefix(uri, "https://") THEN "network"
    ELSE IF HasPrefix(uri, "bundle-assets://") THEN "asset"
    ELSE IF HasPrefix(uri, "data:application/pdf;base64,") THEN "data"
    ELSE "local"

Strategy(uri) ==
    IF HasPrefix(uri, "http://") \/ HasPrefix(uri, "https://") THEN "network"
    ELSE IF HasPrefix(uri, "bundle-assets://") THEN "asset"
    ELSE IF HasPrefix(uri, "data:application/pdf;base64,") THEN "data"
    ELSE "local"

\* line 139: decodeURIComponent(uri.replace(/^file:\/\//, ''))
DecodeToken(t) == IF t = "%20" THEN " " ELSE t
DecodeURIComponent(s) == [i \in 1..Len(s) |-> DecodeToken(s[i])]
\* decodeURIComponent throws on a "%" that starts no valid escape
Decodable(s) == \A i \in 1..Len(s) : s[i] # "%"
StripFilePrefix(uri) == IF HasPrefix(uri, "file://") THEN Tail(uri) ELSE uri
LocalPath(uri) == DecodeURIComponent(StripFilePrefix(uri))

\* line 102: if (!uri)
MissingUriNever(src) == FALSE
MissingUri(src) == src.uri = <<>>

\* lines 173-182: TRUE when validation passes, FALSE when it throws
ValidateAlwaysPasses(contentLength, actualSize) == TRUE
ValidateDownloadedFile(contentLength, actualSize) ==
    IF contentLength # <<>> THEN contentLength[1] = actualSize ELSE TRUE

\* lines 167-170: after handleError the catch handler issues the unlink
CatchSkipsUnlink == "done"
CatchNextPc == "unlinkCatch"

\* ------------------------------------------------------------------- state
VARIABLES
    life,       \* "constructed" | "mounted" | "unmounted"; this.mounted = (life = "mounted")
    state,      \* this.state: [path, isDownloaded, progress]
    lastTask,   \* this.lastTask: 0 (null) or the attempt whose fetch it refers to
    attempts,   \* one record per loadSource call, in call order
    cancelCb,   \* per task, how many cancel callbacks (lastTask = null) are still to run
    files,      \* the cache directory: path -> file
    ticks,      \* the clock
    event       \* what the step delivered to the consumer / the published state

vars == <<life, state, lastTask, attempts, cancelCb, files, ticks, event>>

Now == TimeOf(ticks)
Mounted == life = "mounted"
\* props.source is the source of the latest loadSource call
Current == Len(attempts)
Ids == 1..Len(attempts)

NoEvent == [kind |-> "none", by |-> 0, err |-> "none"]
PathEvent(a) == [kind |-> "path", by |-> a, err |-> "none"]
ProgressEvent(a) == [kind |-> "progress", by |-> a, err |-> "none"]
ErrorEvent(a, e) == [kind |-> "error", by |-> a, err |-> e]

NewAttempt(src) ==
    [src |-> src, pc |-> "start", task |-> FALSE, cancelled |-> FALSE, inflightCancel |-> FALSE,
     recv |-> 0,
     size |-> 0, declared |-> <<>>, busy |-> FALSE, errs |-> 0, errKind |-> "none",
     published |-> FALSE, wroteFinal |-> FALSE, statted |-> FALSE, hit |-> FALSE,
     unlinkFailed |-> FALSE, seen |-> <<>>, failure |-> "none"]

Put(atts, id, rec) == IF id > Len(atts) THEN Append(atts, rec) ELSE [atts EXCEPT ![id] = rec]

\* lines 62-71: constructor
Init ==
    /\ life = "constructed"
    /\ state = [path |-> <<>>, isDownloaded |-> FALSE, progress |-> <<0, 1>>]
    /\ lastTask = 0
    /\ attempts = <<>>
    /\ cancelCb = [t \in 1..MaxAttempts |-> 0]
    /\ \E pre \in {{}, CachePaths} :
          files = [p \in Paths |-> IF p \in pre THEN FileOf("complete", 0, 2, TimeOf(0)) ELSE Absent]
    /\ ticks = 0
    /\ event = NoEvent

\* lines 184-188: safeSetState({path, isDownloaded: true}) by attempt id
SafeSetPath(id, rec, atts, mounted, path) ==
    IF mounted
    THEN /\ state' = [state EXCEPT !.path = path, !.isDownloaded = TRUE]
         /\ event' = PathEvent(id)
         /\ attempts' = Put(atts, id, [rec EXCEPT !.published = TRUE])
    ELSE /\ state' = state
         /\ event' = NoEvent
         /\ attempts' = Put(atts, id, rec)

\* lines 190-194: handleError
HandleErrorUnlessCancelled(id, rec, atts, kind) ==
    /\ event' = IF rec.cancelled THEN NoEvent ELSE ErrorEvent(id, kind)
    /\ attempts' = Put(atts, id, IF rec.cancelled THEN rec
                                 ELSE [rec EXCEPT !.errs = @ + 1, !.errKind = kind])
    /\ state' = state

HandleErrorResets(id, rec, atts, kind) ==
    /\ event' = ErrorEvent(id, kind)
    /\ attempts' = Put(atts, id, [rec EXCEPT !.errs = @ + 1, !.errKind = kind])
    /\ state' = [state EXCEPT !.path = <<>>, !.isDownloaded = FALSE]

HandleError(id, rec, atts, kind) ==
    /\ event' = ErrorEvent(id, kind)
    /\ attempts' = Put(atts, id, [rec EXCEPT !.errs = @ + 1, !.errKind = kind])
    /\ state' = state

\* lines 127-144 up to the first await, with downloadFile lines 146-153
PrepareFile(id, rec, atts, mounted) ==
    LET strategy == Strategy(rec.src.uri) IN
    CASE strategy = "network" ->
            /\ lastTask' = id
            /\ attempts' = Put(atts, id, [rec EXCEPT !.pc = "fetch", !.task = TRUE])
            /\ state' = state
            /\ event' = NoEvent
      [] strategy = "asset" ->
            /\ lastTask' = lastTask
            /\ attempts' = Put(atts, id, [rec EXCEPT !.pc = "assetCp"])
            /\ state' = state
            /\ event' = NoEvent
      [] strategy = "data" ->
            /\ lastTask' = lastTask
            /\ attempts' = Put(atts, id, [rec EXCEPT !.pc = "dataWrite"])
            /\ state' = state
            /\ event' = NoEvent
      [] OTHER ->
            /\ lastTask' = lastTask
            /\ IF Decodable(StripFilePrefix(rec.src.uri))
               THEN SafeSetPath(id, [rec EXCEPT !.pc = "done"], atts, mounted,
                                LocalPath(rec.src.uri))
               ELSE HandleError(id, [rec EXCEPT !.pc = "done", !.failure = "decode"], atts,
                                "uri")

\* lines 98-125 up to the first await
LoadSource(id, src, atts, mounted) ==
    LET rec == NewAttempt(src) IN
    IF MissingUri(src)
    THEN /\ HandleError(id, [rec EXCEPT !.pc = "done", !.failure = "nosource"], atts, "nosource")
         /\ lastTask' = lastTask
    ELSE IF UsesCache(src)
    THEN /\ attempts' = Put(atts, id, [rec EXCEPT !.pc = "stat", !.statted = TRUE])
         /\ lastTask' = lastTask
         /\ state' = state
         /\ event' = NoEvent
    ELSE PrepareFile(id, rec, atts, mounted)

\* lines 90-96: cancelTask; the transport marks the task cancelled and will
\* run the callback later, one callback for each cancel() call
CancelTask(atts) ==
    IF lastTask # 0
    THEN [atts EXCEPT ![lastTask].cancelled = TRUE,
                      ![lastTask].inflightCancel = @ \/ atts[lastTask].pc = "fetch"]
    ELSE atts
CancelTaskCb == IF lastTask # 0 THEN [cancelCb EXCEPT ![lastTask] = @ + 1] ELSE cancelCb

\* lines 73-76
ComponentDidMount(src) ==
    /\ life = "constructed"
    /\ life' = "mounted"
    /\ LoadSource(1, src, attempts, TRUE)
    /\ UNCHANGED <<cancelCb, files, ticks>>

\* lines 78-83, for a source prop that differs from the previous one
ComponentDidUpdate(src) ==
    /\ life = "mounted"
    /\ Len(attempts) < MaxAttempts
    /\ cancelCb' = CancelTaskCb
    /\ LoadSource(Len(attempts) + 1, src, CancelTask(attempts), TRUE)
    /\ UNCHANGED <<life, files, ticks>>

\* lines 85-88
ComponentWillUnmount ==
    /\ life = "mounted"
    /\ life' = "unmounted"
    /\ cancelCb' = CancelTaskCb
    /\ attempts' = CancelTask(attempts)
    /\ event' = NoEvent
    /\ UNCHANGED <<state, lastTask, files, ticks>>

\* lines 92-94: the deferred cancel callback
CancelCallback(t) ==
    /\ t \in DOMAIN cancelCb
    /\ cancelCb[t] > 0
    /\ cancelCb' = [cancelCb EXCEPT ![t] = @ - 1]
    /\ lastTask' = 0
    /\ event' = NoEvent
    /\ UNCHANGED <<life, state, attempts, files, ticks>>

\* lines 112-124: the cache stat settles and loadSource continues
StatDone(a, ok) ==
    /\ a \in Ids
    /\ attempts[a].pc = "stat"
    /\ LET cacheFile == CacheFile(attempts[a].src)
           f == files[cacheFile]
           found == ok /\ f.st # "absent"
           rec == [attempts[a] EXCEPT
                     !.seen = <<[found |-> found, now |-> Now, lastModified |-> f.mtime]>>]
       IN IF found /\ ~IsExpired(rec.src.expiration, Now, f.mtime)
          THEN /\ SafeSetPath(a, [rec EXCEPT !.pc = "done", !.hit = TRUE], attempts, Mounted, cacheFile)
               /\ lastTask' = lastTask
          ELSE PrepareFile(a, rec, attempts, Mounted)
    /\ UNCHANGED <<life, cancelCb, files, ticks>>

\* lines 155-159: a progress event of a running fetch; the transport has
\* written part of the temp file.  The transport's cancel() removes the
\* progress subscription and makes the request fail, so a task that was asked
\* to cancel reports no progress and settles by rejecting (FetchReject).
FetchProgress(a) ==
    /\ a \in Ids
    /\ attempts[a].pc = "fetch"
    /\ ~attempts[a].cancelled
    /\ attempts[a].recv < MaxRecv
    /\ LET rec == [attempts[a] EXCEPT !.recv = @ + 1]
           temp == TempCacheFile(CacheFile(rec.src))
       IN /\ files' = [files EXCEPT ![temp] = FileOf("partial", a, rec.recv, Now)]
          /\ attempts' = [attempts EXCEPT ![a] = rec]
          /\ IF Mounted
             THEN /\ state' = [state EXCEPT !.progress = <<rec.recv, MaxRecv + 1>>]
                  /\ event' = ProgressEvent(a)
             ELSE /\ state' = state
                  /\ event' = NoEvent
    /\ UNCHANGED <<life, lastTask, cancelCb, ticks>>

\* lines 160-162 and 167-169: the fetch resolves with `size` bytes at the
\* temp path and the response header `declared`; the then-handler validates
\* and either starts the commit copy or throws into the catch handler
\* (the handler does not ask whether cancel() was called on the task: a
\* response that completed before the cancellation took effect resolves)
FetchResolve(a, res) ==
    /\ a \in Ids
    /\ attempts[a].pc = "fetch"
    /\ LET \* the attempt record keeps a response only where its declared
           \* length differs from the size written (what Mismatch reads)
           rec == IF res.declared # <<>> /\ res.declared[1] # res.size
                  THEN [attempts[a] EXCEPT !.size = res.size, !.declared = res.declared]
                  ELSE attempts[a]
           temp == TempCacheFile(CacheFile(rec.src))
       IN /\ files' = [files EXCEPT ![temp] = FileOf("complete", a, res.size, Now)]
          /\ IF ValidateDownloadedFile(res.declared, files'[temp].size)
             THEN /\ attempts' = [attempts EXCEPT ![a] = [rec EXCEPT !.pc = "cp"]]
                  /\ state' = state
                  /\ event' = NoEvent
             ELSE HandleError(a, [rec EXCEPT !.pc = CatchNextPc, !.failure = "mismatch"],
                              attempts, "mismatch")
    /\ UNCHANGED <<life, lastTask, cancelCb, ticks>>

\* lines 167-170: the fetch rejects (transport failure, or the transport
\* settles a cancelled request)
FetchReject(a) ==
    /\ a \in Ids
    /\ attempts[a].pc = "fetch"
    /\ HandleError(a, [attempts[a] EXCEPT
                          !.pc = CatchNextPc,
                          !.failure = IF attempts[a].cancelled THEN "cancelled" ELSE "transport"],
                   attempts, IF attempts[a].cancelled THEN "cancelled" ELSE "network")
    /\ UNCHANGED <<life, lastTask, cancelCb, files, ticks>>

\* fs.cp / fs.writeFile start writing the destination (lines 134, 137, 162)
CopyBegin(a) ==
    /\ a \in Ids
    /\ attempts[a].pc \in {"cp", "assetCp", "dataWrite"}
    /\ ~attempts[a].busy
    /\ LET rec == attempts[a]
           cacheFile == CacheFile(rec.src)
       IN /\ rec.pc = "cp" => files[TempCacheFile(cacheFile)].st # "absent"
          /\ files' = [files EXCEPT ![cacheFile] = FileOf("partial", a, 1, Now)]
          /\ attempts' = [attempts EXCEPT ![a] = [rec EXCEPT !.busy = TRUE, !.wroteFinal = TRUE]]
    /\ event' = NoEvent
    /\ UNCHANGED <<life, state, lastTask, cancelCb, ticks>>

\* lines 162-165 and 167-169: the commit copy settles; a completed copy
\* leaves at the final path what the temp path holds
CommitCopyEnd(a, ok) ==
    /\ a \in Ids
    /\ attempts[a].pc = "cp"
    /\ ok => attempts[a].busy
    /\ ok => files[TempCacheFile(CacheFile(attempts[a].src))].st # "absent"
    /\ LET rec == [attempts[a] EXCEPT !.busy = FALSE]
           cacheFile == CacheFile(rec.src)
       IN IF ok
          THEN /\ files' = [files EXCEPT ![cacheFile] =
                                 [files[TempCacheFile(cacheFile)] EXCEPT !.mtime = Now]]
               /\ SafeSetPath(a, [rec EXCEPT !.pc = "unlinkThen"], attempts, Mounted, cacheFile)
          ELSE /\ files' = files
               /\ HandleError(a, [rec EXCEPT !.pc = CatchNextPc, !.failure = "copy"], attempts, "fs")
    /\ UNCHANGED <<life, lastTask, cancelCb, ticks>>

\* lines 134 and 141-143: the bundled-asset copy settles
AssetCopyEnd(a, ok) ==
    /\ a \in Ids
    /\ attempts[a].pc = "assetCp"
    /\ ok => attempts[a].busy
    /\ LET rec == [attempts[a] EXCEPT !.busy = FALSE, !.pc = "done"]
           cacheFile == CacheFile(rec.src)
       IN IF ok
          THEN /\ files' = [files EXCEPT ![cacheFile] = FileOf("complete", a, 2, Now)]
               /\ attempts' = [attempts EXCEPT ![a] = rec]
               /\ state' = state
               /\ event' = NoEvent
          ELSE /\ files' = files
               /\ HandleError(a, [rec EXCEPT !.failure = "copy"], attempts, "fs")
    /\ UNCHANGED <<life, lastTask, cancelCb, ticks>>

\* lines 136-137 and 141-143: the inline-data write settles
DataWriteEnd(a, ok) ==
    /\ a \in Ids
    /\ attempts[a].pc = "dataWrite"
    /\ ok => attempts[a].busy
    /\ LET rec == [attempts[a] EXCEPT !.busy = FALSE, !.pc = "done"]
           cacheFile == CacheFile(rec.src)
       IN IF ok
          THEN /\ files' = [files EXCEPT ![cacheFile] = FileOf("complete", a, 1, Now)]
               /\ attempts' = [attempts EXCEPT ![a] = rec]
               /\ state' = state
               /\ event' = NoEvent
          ELSE /\ files' = files
               /\ HandleError(a, [rec EXCEPT !.failure = "copy"], attempts, "fs")
    /\ UNCHANGED <<life, lastTask, cancelCb, ticks>>

\* line 165 (awaited, a rejection enters the catch handler) and line 169
\* (not awaited): the unlink of the temp file settles
UnlinkEnd(a, ok) ==
    /\ a \in Ids
    /\ attempts[a].pc \in {"unlinkThen", "unlinkCatch"}
    /\ LET rec == [attempts[a] EXCEPT !.unlinkFailed = ~ok]
           temp == TempCacheFile(CacheFile(rec.src))
       IN /\ files' = IF ok THEN [files EXCEPT ![temp] = Absent] ELSE files
          /\ IF rec.pc = "unlinkThen" /\ ~ok
             THEN HandleError(a, [rec EXCEPT !.pc = CatchNextPc, !.failure = "unlink"],
                              attempts, "unlink")
             ELSE /\ attempts' = [attempts EXCEPT ![a] = [rec EXCEPT !.pc = "done"]]
                  /\ state' = state
                  /\ event' = NoEvent
    /\ UNCHANGED <<life, lastTask, cancelCb, ticks>>

\* time passes; the only reader of the clock is loadSource after its stat
\* (line 113), so the clock is advanced while a stat is pending
Tick ==
    /\ ticks < MaxTicks
    /\ \E a \in Ids : attempts[a].pc = "stat"
    /\ ticks' = ticks + 1
    /\ event' = NoEvent
    /\ UNCHANGED <<life, state, lastTask, attempts, cancelCb, files>>

\* One resolution: mount with any source, then unmount at any moment
\* the loadSource calls made so far with an http(s) uri
NetAttempts == Cardinality({a \in Ids : Strategy(attempts[a].src.uri) = "network"})

\* Every source, with source changes
Next ==
    \/ \E src \in Sources : ComponentDidMount(src)
    \/ \E src \in Sources :
          /\ Strategy(src.uri) = "network" => NetAttempts < MaxNetAttempts
          /\ ComponentDidUpdate(src)
    \/ ComponentWillUnmount
    \/ \E t \in Ids : CancelCallback(t)
    \/ \E a \in Ids, ok \in BOOLEAN : StatDone(a, ok)
    \/ \E a \in Ids : FetchProgress(a)
    \/ \E a \in Ids, res \in Responses : FetchResolve(a, res)
    \/ \E a \in Ids : FetchReject(a)
    \/ \E a \in Ids : CopyBegin(a)
    \/ \E a \in Ids, ok \in BOOLEAN : CommitCopyEnd(a, ok)
    \/ \E a \in Ids, ok \in BOOLEAN : AssetCopyEnd(a, ok)
    \/ \E a \in Ids, ok \in BOOLEAN : DataWriteEnd(a, ok)
    \/ \E a \in Ids, ok \in BOOLEAN : UnlinkEnd(a, ok)
    \/ Tick

Spec == Init /\ [][Next]_vars

\* Network sources with source changes: resolutions of one instance overlap
NextNet ==
    \/ \E src \in NetSources : ComponentDidMount(src)
    \/ \E src \in NetSources : ComponentDidUpdate(src)
    \/ ComponentWillUnmount
    \/ \E t \in Ids : CancelCallback(t)
    \/ \E a \in Ids, ok \in BOOLEAN : StatDone(a, ok)
    \/ \E a \in Ids : FetchProgress(a)
    \/ \E a \in Ids, res \in Responses : FetchResolve(a, res)
    \/ \E a \in Ids : FetchReject(a)
    \/ \E a \in Ids : CopyBegin(a)
    \/ \E a \in Ids, ok \in BOOLEAN : CommitCopyEnd(a, ok)
    \/ \E a \in Ids, ok \in BOOLEAN : UnlinkEnd(a, ok)

SpecNet == Init /\ [][NextNet]_vars

\* ------------------------------------------------------------- properties
Temp(a) == TempCacheFile(CacheFile(attempts[a].src))
\* a fetch that was started, has not settled and was not asked to cancel
InFlight(a) == attempts[a].pc = "fetch" /\ ~attempts[a].cancelled
AllDone == \A a \in Ids : attempts[a].pc = "done"
\* the response declared a Content-Length that differs from the bytes written
Mismatch(a) ==
    /\ attempts[a].declared # <<>>
    /\ attempts[a].declared[1] # attempts[a].size

\* C1: at most one network fetch of the instance is in flight in every
\* reachable state.  The code violates it: a loadSource that was awaiting the
\* cache stat when the source changed starts its fetch next to the new one.
C1_SingleFlight == Cardinality({a \in Ids : InFlight(a)}) <= 1

\* C2: no fetch for a source that is no longer the current one, or of an
\* unmounted instance, is left running without a cancel request.  The code
\* violates it: cancelTask only reaches the task lastTask refers to.
C2_StaleFetchCancelled ==
    \A a \in Ids :
        attempts[a].pc = "fetch" /\ (a # Current \/ ~Mounted) => attempts[a].cancelled

\* C3: once a resolution for a new source has started, the attempt for the
\* previous source never sets state.path / isDownloaded / progress.  The code
\* violates it: safeSetState and the progress handler only test this.mounted.
C3_NoStalePublish ==
    event.kind \in {"path", "progress"} => event.by = Current

\* C4: a fetch cancelled through cancelTask never causes props.onError for
\* that task.  The code violates it: the catch handler reports every
\* rejection, the one that settles a cancelled request included.
C4_CancelSilent ==
    event.kind = "error" => ~attempts[event.by].cancelled

\* C5: after componentWillUnmount the instance delivers nothing: no setState
\* and no props.onError.  The code violates it: handleError is not guarded.
C5_SilentAfterUnmount ==
    life = "unmounted" => event.kind = "none"

\* C6 as stated: after a size mismatch the error is delivered, nothing is
\* published or copied, and no file exists at the temp path once the attempt
\* has finished.  Violated when the unlink of the temp file is rejected.
C6_Original ==
    \A a \in Ids :
        Mismatch(a) /\ attempts[a].pc = "done" =>
            /\ attempts[a].errKind = "mismatch"
            /\ ~attempts[a].published
            /\ ~attempts[a].wroteFinal
            /\ files[Temp(a)].st = "absent"

\* C6 (amended): when the declared Content-Length differs from the size of
\* the temp file, props.onError gets the size-mismatch error exactly once,
\* the attempt publishes no path and writes nothing to the final cache path,
\* and it unlinks its temp path: once that unlink has succeeded no temp file
\* written by the attempt exists.
C6_SizeMismatch ==
    \A a \in Ids :
        Mismatch(a) =>
            /\ attempts[a].errKind = "mismatch"
            /\ attempts[a].errs = 1
            /\ ~attempts[a].published
            /\ ~attempts[a].wroteFinal
            /\ attempts[a].pc \in {"unlinkCatch", "done"}
            /\ attempts[a].pc = "done" /\ ~attempts[a].unlinkFailed =>
                  ~(files[Temp(a)].st # "absent" /\ files[Temp(a)].by = a)

C6_Witness ==
    \E a \in Ids :
        /\ Mismatch(a)
        /\ attempts[a].pc = "done"
        /\ ~attempts[a].unlinkFailed
        /\ attempts[a].errKind = "mismatch"
        /\ files[Temp(a)].st = "absent"

\* C7 as stated: when every attempt has reached its end no temp file is left
\* in the cache directory.  Violated when the unlink is rejected.
C7_Original ==
    AllDone => \A p \in CachePaths : files[TempCacheFile(p)].st = "absent"

\* C7 (amended): when every attempt has reached its end (committed, transport
\* failure, failed validation, failed copy, cancelled), a file is left at a
\* temp path only if the last unlink of a fetch using that path was rejected.
C7_TempCleanup ==
    AllDone =>
        \A p \in CachePaths :
            files[TempCacheFile(p)].st # "absent" =>
                \E a \in Ids :
                    attempts[a].task /\ Temp(a) = TempCacheFile(p) /\ attempts[a].unlinkFailed

C7_Witness ==
    /\ AllDone
    /\ \E a, b \in Ids :
          /\ attempts[a].task /\ attempts[a].errKind = "cancelled" /\ ~attempts[a].unlinkFailed
          /\ attempts[b].task /\ attempts[b].published /\ ~attempts[b].unlinkFailed
          /\ Temp(a) = Temp(b)
    /\ \A p \in CachePaths : files[TempCacheFile(p)].st = "absent"

\* C8: for a source whose cache flag is false or absent loadSource never
\* stats the cache path and never publishes a file it found there: it goes
\* on to prepareFile, and a cache path it publishes holds what it acquired.
C8_NoCacheNeverStats ==
    \A a \in Ids :
        ~attempts[a].src.cache =>
            /\ ~attempts[a].statted
            /\ attempts[a].seen = <<>>
            /\ ~attempts[a].hit
            /\ attempts[a].pc # "stat"
            /\ attempts[a].published /\ Strategy(attempts[a].src.uri) # "local" =>
                  attempts[a].wroteFinal

C8_Witness ==
    \E a \in Ids :
        /\ ~attempts[a].src.cache
        /\ attempts[a].pc = "fetch"
        /\ files[CacheFile(attempts[a].src)].st = "complete"
        /\ files[CacheFile(attempts[a].src)].by = 0

\* the expiry test as the claim states it, expiration in seconds and the
\* clock in milliseconds
ClaimedExpired(expiration, nowMs, lastModified) ==
    /\ expiration # <<>>
    /\ expiration[1] > 0
    /\ nowMs > lastModified + expiration[1] * 1000

\* C9: with cache enabled loadSource reports a hit iff the stat succeeds and
\* NOT (expiration > 0 AND now > lastModified + expiration); an expiration
\* that is not positive never expires the entry.  The code violates it for a
\* negative expiration, which it treats as expired.
C9_HitIffFresh ==
    \A a \in Ids :
        attempts[a].seen # <<>> =>
            (attempts[a].hit <=>
                /\ attempts[a].seen[1].found
                /\ ~ClaimedExpired(attempts[a].src.expiration, attempts[a].seen[1].now,
                                   attempts[a].seen[1].lastModified))

\* the file a successful non-network resolution produced
Produced(a) ==
    IF Strategy(attempts[a].src.uri) = "local"
    THEN LocalPath(attempts[a].src.uri)
    ELSE CacheFile(attempts[a].src)

\* C10: a non-network resolution (bundled asset, inline data, local path)
\* that succeeds sets isDownloaded with path = the file it produced, while
\* the instance is mounted and the attempt is the current one.  The code
\* violates it: prepareFile publishes nothing after the asset copy or the
\* inline-data write.
C10_NonNetworkPublishes ==
    \A a \in Ids :
        /\ attempts[a].src.uri # UriNone
        /\ Strategy(attempts[a].src.uri) # "network"
        /\ attempts[a].pc = "done"
        /\ attempts[a].errs = 0
        /\ ~attempts[a].hit
        /\ a = Current
        /\ Mounted
        => /\ attempts[a].published
           /\ state.isDownloaded
           /\ event = PathEvent(a) => state.path = Produced(a)

\* C11: a cache-hit decision never accepts a partially written file: when an
\* attempt publishes the cache path because its stat found it, the file at
\* that path is complete, also while a commit copy, a bundled-asset copy or
\* an inline-data write to that path is in progress.  The code violates it:
\* fs.cp writes the final path in place, and the stat of another attempt
\* succeeds on the file while it is being written.
C11_NoPartialHit ==
    \A a \in Ids :
        event.kind = "path" /\ event.by = a /\ attempts[a].hit =>
            files[CacheFile(attempts[a].src)].st = "complete"

\* the reasons for which an attempt fails other than its cancellation
FailureReasons == {"nosource", "transport", "mismatch", "copy", "decode"}

\* C12: an attempt that fails for a reason other than cancellation (missing
\* uri, transport failure, size mismatch, failed copy, write or decode) has
\* invoked props.onError exactly once, and no attempt invokes it twice.
C12_ErrorExactlyOnce ==
    \A a \in Ids :
        /\ attempts[a].errs <= 1
        /\ attempts[a].failure \in FailureReasons => attempts[a].errs = 1

C12_Witness ==
    \E a \in Ids :
        /\ attempts[a].failure = "copy"
        /\ attempts[a].task
        /\ attempts[a].pc = "done"
        /\ attempts[a].errs = 1
        /\ life = "unmounted"

\* C13: for a source without a uri, whether or not it asks for the cache,
\* loadSource invokes props.onError once, at once, and does nothing else.
\* The step that makes the call (mount or source change) leaves the
\* published state (path, isDownloaded, progress), every file and lastTask
\* as they were, delivers the error, and the attempt is finished with no
\* stat, no fetch and no copy or write; no later step changes the attempt.
C13_NoSource ==
    [][/\ \A a \in 1..Len(attempts') :
             a > Len(attempts) /\ attempts'[a].src.uri = UriNone =>
                 /\ state' = state
                 /\ files' = files
                 /\ lastTask' = lastTask
                 /\ event' = ErrorEvent(a, "nosource")
                 /\ attempts'[a].pc = "done"
                 /\ attempts'[a].errs = 1
                 /\ attempts'[a].errKind = "nosource"
                 /\ ~attempts'[a].statted /\ attempts'[a].seen = <<>>
                 /\ ~attempts'[a].task /\ attempts'[a].recv = 0
                 /\ ~attempts'[a].busy /\ ~attempts'[a].wroteFinal
                 /\ ~attempts'[a].published
       /\ \A a \in Ids :
             attempts[a].src.uri = UriNone => attempts'[a] = attempts[a]]_vars

\* a source change to a cache-enabled source without a uri, after a path
\* was published
C13_Witness ==
    /\ Current = 2
    /\ attempts[1].published
    /\ state.isDownloaded /\ state.path # <<>>
    /\ attempts[2].src.uri = UriNone /\ attempts[2].src.cache
    /\ attempts[2].errs = 1
    /\ event = ErrorEvent(2, "nosource")

\* the strategy the claim assigns to a uri, by its prefix
ClaimedStrategy(uri) ==
    IF uri # <<>> /\ uri[1] \in {"http://", "https://"} THEN "network"
    ELSE IF uri # <<>> /\ uri[1] = "bundle-assets://" THEN "asset"
    ELSE IF uri # <<>> /\ uri[1] = "data:application/pdf;base64," THEN "data"
    ELSE "local"

\* an attempt that has entered prepareFile
Prepared(a) ==
    /\ attempts[a].src.uri # UriNone
    /\ attempts[a].pc \notin {"start", "stat"}
    /\ ~attempts[a].hit

\* what the claim says of the strategy an attempt took, but for the path it
\* publishes: a fetch only for http(s), a write to the final path only for
\* http(s), bundle-assets and inline data, and neither for a local path
StrategyTaken(a) ==
    LET s == ClaimedStrategy(attempts[a].src.uri) IN
    /\ attempts[a].task <=> s = "network"
    /\ s = "network" => attempts[a].pc \in {"fetch", "cp", "unlinkThen", "unlinkCatch", "done"}
    /\ s = "asset" => attempts[a].pc \in {"assetCp", "done"}
    /\ s = "data" => attempts[a].pc \in {"dataWrite", "done"}
    /\ s = "local" =>
          /\ attempts[a].pc = "done"
          /\ ~attempts[a].wroteFinal /\ ~attempts[a].busy
          /\ \A p \in Paths : files[p].by # a

\* C14 as stated: prepareFile takes the one strategy of the uri's prefix, and
\* the local passthrough publishes the percent-decoded uri with a leading
\* file:// removed.  Violated by a path with a malformed escape, for which
\* decodeURIComponent throws and nothing is published.
C14_Original ==
    \A a \in Ids :
        Prepared(a) =>
            /\ StrategyTaken(a)
            /\ ClaimedStrategy(attempts[a].src.uri) = "local" /\ a = Current /\ ~attempts[a].statted =>
                  /\ attempts[a].published
                  /\ state.isDownloaded

\* C14 (amended): prepareFile takes exactly one strategy by the uri's prefix:
\* http:// or https:// the network download, bundle-assets:// the copy to the
\* final path, data:application/pdf;base64, the decode and write to the final
\* path, anything else the local passthrough, which starts no fetch and
\* writes no file, and publishes the percent-decoded uri with a leading
\* file:// removed (file:///storage/doc.pdf as /storage/doc.pdf) or, when the
\* uri holds a malformed escape, reports the decoding error to props.onError
\* and publishes nothing.
C14_StrategyByPrefix ==
    \A a \in Ids :
        Prepared(a) =>
            /\ StrategyTaken(a)
            /\ ClaimedStrategy(attempts[a].src.uri) = "local" /\ a = Current /\ ~attempts[a].statted =>
                  IF \E i \in 1..Len(attempts[a].src.uri) : attempts[a].src.uri[i] = "%"
                  THEN /\ ~attempts[a].published /\ attempts[a].errs = 1
                       /\ event.kind = "path" => event.by # a
                  ELSE /\ attempts[a].published /\ attempts[a].errs = 0
                       /\ state.isDownloaded
                       /\ attempts[a].src.uri = UriFile /\ event = PathEvent(a) =>
                             state.path = <<"/storage/doc.pdf">>
                       /\ attempts[a].src.uri = UriPath /\ event = PathEvent(a) =>
                             state.path = <<"/storage/", " ", "doc.pdf">>

C14_Witness ==
    \E a \in Ids :
        /\ attempts[a].src.uri = UriFile
        /\ attempts[a].published
        /\ state.path = <<"/storage/doc.pdf">>
        /\ event = PathEvent(a)

\* C15: a network download publishes the cache path only after its
\* validation passed and its copy to the final path completed, the temp path
\* is never published, and in no state is the path a download published the
\* current path while the file at it is missing or incomplete.  The code
\* violates the last part: the commit copy of a later download of the same
\* uri rewrites the published file in place.
C15_PublishedIsCommitted ==
    \A a \in Ids :
        attempts[a].task /\ attempts[a].published =>
            /\ ~Mismatch(a)
            /\ attempts[a].wroteFinal
            /\ \A p \in CachePaths : state.path # TempCacheFile(p)
            /\ state.isDownloaded /\ state.path = CacheFile(attempts[a].src) =>
                  files[state.path].st = "complete"

\* a fetch task whose temp file is still in use: the task is receiving, or
\* its handlers have not yet unlinked the temp path
UsesTemp(a) == attempts[a].task /\ attempts[a].pc # "done"

\* C16: a temp path is used by one fetch task at a time: no fetch starts
\* writing a temp path that an earlier task of the same cache file, not yet
\* cleaned up, still uses, and no task's cleanup deletes the temp file that
\* a newer task is writing.  The code violates it: the temp path is
\* cacheFile + '.tmp' for every task of the same uri.
C16_TempExclusive ==
    /\ \A a, b \in Ids :
          a # b /\ UsesTemp(a) /\ UsesTemp(b) => Temp(a) # Temp(b)
    /\ \A b \in Ids :
          attempts[b].pc = "fetch" /\ attempts[b].recv > 0 => files[Temp(b)].st # "absent"

\* C17: a failure while deleting the temp file is never reported: an attempt
\* that committed and published path-ready has invoked no props.onError, so
\* no attempt delivers both path-ready and an error.  The code violates it:
\* the unlink is awaited inside the then-handler, whose rejection the catch
\* handler reports.
C17_NoErrorAfterPublish ==
    \A a \in Ids : attempts[a].published => attempts[a].errs = 0

\* C18: when a copy, decode or write step has failed partway, in any
\* strategy, no partial output is left at the final cache path: once the
\* error is reported the path is absent or holds complete content.  The code
\* violates it: it writes the final path in place and removes nothing on
\* failure.
C18_NoPartialAfterFailure ==
    \A a \in Ids :
        attempts[a].failure = "copy" /\ attempts[a].errs > 0 =>
            files[CacheFile(attempts[a].src)].st # "partial"

\* a task whose cancellation was requested only after it had completed or
\* failed
LateCancelled(t) == attempts[t].cancelled /\ ~attempts[t].inflightCancel

\* C19: cancelTask on a task that has already completed or failed is a
\* no-op, so the callback of such a cancellation leaves the reference to a
\* task started afterwards in place.  The code violates it: the callback
\* sets lastTask to null whichever task it refers to by then.
C19_LateCancelNoOp ==
    [][\A t \in Ids :
          LateCancelled(t) /\ cancelCb'[t] < cancelCb[t] =>
              lastTask' = lastTask \/ lastTask = t]_vars

\* the path an attempt published
Published(a) ==
    IF attempts[a].task \/ attempts[a].hit
    THEN CacheFile(attempts[a].src)
    ELSE LocalPath(attempts[a].src.uri)

\* C20: once an attempt has published, isDownloaded stays true and the path
\* is a path some attempt resolved and published; before that, path and
\* isDownloaded hold their initial values.  So a source change, a
\* cancellation or a failed resolution leaves the published path and
\* isDownloaded as they were.
C20_PublishedStays ==
    IF \E a \in Ids : attempts[a].published
    THEN /\ state.isDownloaded
         /\ \E a \in Ids : attempts[a].published /\ state.path = Published(a)
    ELSE ~state.isDownloaded /\ state.path = <<>>

C20_Witness ==
    /\ Current = 2
    /\ attempts[1].published
    /\ attempts[1].cancelled
    /\ ~attempts[2].published
    /\ attempts[2].errs = 1
    /\ attempts[2].pc = "done"
    /\ state.isDownloaded
    /\ state.path = CacheFile(attempts[1].src)

TypeOK ==
    /\ life \in {"constructed", "mounted", "unmounted"}
    /\ lastTask \in 0..MaxAttempts
    /\ Len(attempts) <= MaxAttempts
    /\ ticks \in 0..MaxTicks
    /\ cancelCb \in [1..MaxAttempts -> 0..MaxAttempts]

====
